---- MODULE Spec2Model ----
(***************************************************************************)
(* Model of kicad-jlcpcb-fab-generator.py: the generate_fab command, its   *)
(* six pipeline steps, run_command and the ScriptError handling.           *)
(*                                                                         *)
(* External processes (kicad-cli, zip) are inputs: for every invocation    *)
(* the model chooses whether the process could be spawned, its exit        *)
(* status, its captured output, whether it created its output file and,   *)
(* for the two CSV exports, the rows it wrote.  Files are modelled by     *)
(* their names in the output directory; CSV files by their parsed rows.   *)
(***************************************************************************)
EXTENDS Integers, Sequences, FiniteSets, TLC

\* ---------------------------------------------------------------- bounds
MaxFixupRows == 2
MaxPosRows == 2

\* ------------------------------------------------------- program constants
CommandErrorCode == 2
OutputExistsErrorCode == 1

\* ------------------------------------------------------------ run inputs
\* Command-line values of the run (generate_fab's parameters after defaults).
kicad_path == "kicad-cli"
project == "proj"
output == "fab"
project_base == "proj"
schema == "proj/proj.kicad_sch"
pcb == "proj/proj.kicad_pcb"

\* Files the external tools may leave in the output directory.
GerberFile == "proj-F_Cu.gtl"
DrillFile == "proj.drl"
ZipFile == "proj-gerbers.zip"
BomFile == "proj-bom.csv"
PosFile == "proj.pos"
StaleFile == "stale-B_Cu.gbl"
pos_fixups_filename == "pos-fixups.csv"
pre_fixup_pos_filename == "pre-fixup-pos.pos"

\* Values the two CSV exports are drawn from.
Refs == {"R1", "C2"}
Adjusts == {"", "90"}
Rotations == {"0", "180"}
ReturnCodes == {0, 1, 3}
Outputs == {"", "boom"}

SeqsUpTo(S, n) == UNION {[1..k -> S] : k \in 0..n}

\* ------------------------------------------------------------- strings
RECURSIVE Join(_, _)
\* sep.join(xs)
Join(xs, sep) ==
  IF xs = <<>> THEN ""
  ELSE IF Len(xs) = 1 THEN xs[1]
  ELSE xs[1] \o sep \o Join(Tail(xs), sep)

Unquoted(s) == s

\* f'"{s}"'
Quote(s) == "\"" \o s \o "\""

\* click.style(s, fg='red'): ANSI red, then reset
Style(s) == "\\x1b[31m" \o s \o "\\x1b[0m"

\* f'{output}/{name}'
InOutput(name) == output \o "/" \o name

\* ------------------------------------------------------------- errors
NoError == [type |-> "None", title |-> "", details |-> "", error_code |-> 0]

ScriptError(title, details, error_code) ==
  [type |-> "ScriptError", title |-> title, details |-> details,
   error_code |-> error_code]

\* Built-in Python exceptions; none of them is a ScriptError.
PyError(type) == [type |-> type, title |-> "", details |-> "", error_code |-> 0]

\* ------------------------------------------------------ external process
\* What one subprocess.run call observes.  spawned = FALSE: the executable
\* could not be started and subprocess.run raises FileNotFoundError.
NoProc ==
  [spawned |-> FALSE, returncode |-> 0, stdout |-> "", wrote |-> FALSE,
   content |-> <<>>]

\* The outcomes a step's external process is drawn from.  A process that
\* exits 0 reports nothing the program reads, and a process that wrote no
\* file has no content (files that are not read back have the content <<>>).
\* needsCheck: the step opens the file itself, so a
\* clean exit without the file is a case of its own; the other steps never
\* look at their output file, and there a clean exit means the file is there.
Procs(contents, needsCheck) ==
  {NoProc} \cup
  {p \in [spawned : {TRUE}, returncode : ReturnCodes, stdout : Outputs,
          wrote : BOOLEAN, content : contents \cup {<<>>}] :
      /\ p.returncode = 0 => p.stdout = ""
      /\ p.content \in (IF p.wrote THEN contents ELSE {<<>>})
      /\ (p.returncode = 0 /\ ~needsCheck) => p.wrote}

run_command_exitstatus(command_args, proc) ==
  IF ~proc.spawned THEN PyError("FileNotFoundError")
  ELSE IF proc.returncode # 0
    THEN ScriptError("Error executing command " \o Join(command_args, " "),
                     proc.stdout, proc.returncode)
    ELSE NoError

\* run_command: the exception it raises (NoError when it returns).
run_command(command_args, proc) ==
  IF ~proc.spawned THEN PyError("FileNotFoundError")
  ELSE IF proc.returncode # 0
    THEN ScriptError("Error executing command " \o Join(command_args, " "),
                     proc.stdout, CommandErrorCode)
    ELSE NoError

\* ------------------------------------------------------------ the steps
\* The step list handed to click.progressbar, in list order.
StepsReconcileFirst ==
  <<"generate_gerbers", "generate_drill", "archive_pcb", "generate_bom",
    "generate_pos", "load_pos_fixups">>

Steps ==
  <<"generate_gerbers", "generate_drill", "archive_pcb", "generate_bom",
    "load_pos_fixups", "generate_pos">>

StepNames == {Steps[i] : i \in 1..Len(Steps)}

generate_gerbers_args ==
  <<kicad_path, "pcb", "export", "gerbers",
    "-l", "F.Cu,F.Paste,F.Silkscreen,F.Mask,B.Cu,B.Paste,B.Silkscreen,B.Mask,Edge.Cuts",
    "--no-x2", "--subtract-soldermask", "-o", output, pcb>>

generate_drill_args ==
  <<kicad_path, "pcb", "export", "drill", "--map-format", "gerberx2",
    "-o", output \o "/", pcb>>

\* The suffix of the file names of the model.
Suffix(name) ==
  CASE name = GerberFile -> "gtl"
    [] name = StaleFile -> "gbl"
    [] name = DrillFile -> "drl"
    [] name = ZipFile -> "zip"
    [] name = BomFile -> "csv"
    [] name = pos_fixups_filename -> "csv"
    [] OTHER -> "pos"

RECURSIVE SetToSeq(_)
SetToSeq(S) ==
  IF S = {} THEN <<>>
  ELSE LET x == CHOOSE y \in S : TRUE IN <<x>> \o SetToSeq(S \ {x})

\* glob.glob(f'{ec.output}/*.g*') and glob.glob(f'{ec.output}/*.drl')
glob_g(files) ==
  SetToSeq({InOutput(f) : f \in {g \in files : Suffix(g) \in {"gtl", "gbl"}}})

glob_drl(files) ==
  SetToSeq({InOutput(f) : f \in {g \in files : Suffix(g) = "drl"}})

archive_pcb_args(files) ==
  <<"zip", "-o", InOutput(ZipFile)>> \o glob_g(files) \o glob_drl(files)

generate_bom_args ==
  <<kicad_path, "sch", "export", "bom",
    "--fields", "Value,Reference,Footprint,LCSC",
    "--group-by", "Value",
    "--labels", "Comment,Designator,Footprint,LCSC Part Number",
    "--ref-range-delimiter", "",
    "-o", InOutput(BomFile), schema>>

load_pos_fixups_args ==
  <<kicad_path, "sch", "export", "bom", "--fields", "Reference,PosRotAdjust",
    "-o", InOutput(pos_fixups_filename), schema>>

generate_pos_args ==
  <<kicad_path, "pcb", "export", "pos", "--format", "csv", "--units", "mm",
    "--side", "front", "-o", InOutput(pre_fixup_pos_filename), pcb>>

\* The files in the output directory once the process has run.
AfterProc(files, proc, name) ==
  IF proc.spawned /\ proc.wrote THEN files \cup {name} ELSE files

\* ------------------------------------------------------------ CSV exports
FixupHeader == <<"Reference", "PosRotAdjust">>
PosHeader == <<"Ref", "Val", "Package", "PosX", "PosY", "Rot", "Side">>

\* One data row of the placement export for a reference.
PosRow(ref, rot) ==
  IF ref = "R1" THEN <<"R1", "10k", "0805", "12.5", "8.2", rot, "top">>
  ELSE <<ref, "100nF", "0603", "5.0", "5.0", rot, "top">>

\* The exports are taken as kicad-cli writes them: a header row, then data
\* rows with every column present (an empty or short file is not modelled).
FixupContents ==
  {<<FixupHeader>> \o rows :
     rows \in SeqsUpTo({<<r, a>> : r \in Refs, a \in Adjusts}, MaxFixupRows)}

PosContents ==
  {<<PosHeader>> \o rows :
     rows \in SeqsUpTo({PosRow(r, a) : r \in Refs, a \in Rotations}, MaxPosRows)}

\* csv.DictReader: a data row as a dict keyed by the header's field names.
DictRow(fieldnames, row) ==
  [name \in {fieldnames[i] : i \in 1..Len(fieldnames)} |->
     row[CHOOSE i \in 1..Len(fieldnames) : fieldnames[i] = name]]

\* csv.DictReader(file): the data rows after the header, as dicts.
DictReader(content) ==
  [i \in 1..(Len(content) - 1) |-> DictRow(content[1], content[i + 1])]

\* d[k] = v
DictSet(d, k, v) ==
  [x \in DOMAIN d \cup {k} |-> IF x = k THEN v ELSE d[x]]

\* dict()
EmptyDict == [x \in {} |-> DictRow(FixupHeader, <<"", "">>)]

\* ------------------------------------------------- load_pos_fixups (step)
RECURSIVE InsertAllButFirst(_, _)
InsertAllButFirst(fixups, rows) ==
  IF Len(rows) <= 1 THEN fixups
  ELSE InsertAllButFirst(DictSet(fixups, rows[2]["Reference"], rows[2]),
                         <<rows[1]>> \o SubSeq(rows, 3, Len(rows)))

RECURSIVE InsertAllFirstWins(_, _)
InsertAllFirstWins(fixups, rows) ==
  IF rows = <<>> THEN fixups
  ELSE InsertAllFirstWins(
         IF Head(rows)["Reference"] \in DOMAIN fixups THEN fixups
         ELSE DictSet(fixups, Head(rows)["Reference"], Head(rows)),
         Tail(rows))

RECURSIVE InsertAll(_, _)
\* for fixup in csv.DictReader(...): ec.pos_fixups[fixup['Reference']] = fixup
InsertAll(fixups, rows) ==
  IF rows = <<>> THEN fixups
  ELSE InsertAll(DictSet(fixups, Head(rows)["Reference"], Head(rows)),
                 Tail(rows))

RemoveOnSuccessOnly(files, name, pending) ==
  IF pending # NoError THEN [files |-> files, err |-> pending]
  ELSE IF name \in files THEN [files |-> files \ {name}, err |-> pending]
  ELSE [files |-> files, err |-> PyError("FileNotFoundError")]

\* finally: os.remove(name), entered with the exception `pending` in flight
\* (NoError: none).  An exception raised by os.remove replaces the pending one.
RemoveInFinally(files, name, pending) ==
  IF name \in files THEN [files |-> files \ {name}, err |-> pending]
  ELSE [files |-> files, err |-> PyError("FileNotFoundError")]

\* The step's effect on the fixups map and the output directory, and the
\* exception that leaves it.
load_pos_fixups(fixups, files, proc) ==
  LET files1 == AfterProc(files, proc, pos_fixups_filename)
      e1 == run_command(load_pos_fixups_args, proc)
      body ==
        IF e1 # NoError THEN [fixups |-> fixups, err |-> e1]
        ELSE IF pos_fixups_filename \notin files1
          THEN [fixups |-> fixups, err |-> PyError("FileNotFoundError")]
          ELSE [fixups |-> InsertAll(fixups, DictReader(proc.content)),
                err |-> NoError]
      fin == RemoveInFinally(files1, pos_fixups_filename, body.err)
  IN [fixups |-> body.fixups, files |-> fin.files, err |-> fin.err]

\* ---------------------------------------------------- generate_pos (step)
RotationAlwaysOriginal(fixup, pos_line) == pos_line[6]

RotationAlwaysAdjust(fixup, pos_line) == fixup["PosRotAdjust"]

\* if fixup := ...: pos_line[5] = fixup['PosRotAdjust'] or pos_line[5]
\* (a dict read by DictReader has its field names as keys and is truthy)
FixedRotation(fixup, pos_line) ==
  IF DOMAIN fixup # {}
    THEN IF fixup["PosRotAdjust"] # "" THEN fixup["PosRotAdjust"]
         ELSE pos_line[6]
    ELSE pos_line[6]

\* The list joined at line 137 for a row whose reference is in the map.
FixedLine(fixups, pos_line) ==
  <<Quote(pos_line[1]), Quote(pos_line[2]), Quote(pos_line[3]),
    pos_line[4], pos_line[5], FixedRotation(fixups[pos_line[1]], pos_line),
    pos_line[7]>>

RECURSIVE WriteRows(_, _)
\* for pos_line in pre_fixup_pos_reader: the lists written, in order, and the
\* exception that ends the loop.  ec.pos_fixups[k] raises KeyError when k is
\* not a key; the rows before that one are already written.
WriteRows(fixups, rows) ==
  IF rows = <<>> THEN [lines |-> <<>>, err |-> NoError]
  ELSE IF Head(rows)[1] \notin DOMAIN fixups
    THEN [lines |-> <<>>, err |-> PyError("KeyError")]
    ELSE LET rest == WriteRows(fixups, Tail(rows))
         IN [lines |-> <<FixedLine(fixups, Head(rows))>> \o rest.lines,
             err |-> rest.err]

PosFileHeader ==
  <<"Designator", "Val", "Package", "Mid X", "Mid Y", "Rotation", "Layer">>

PosFileTextNoHeader(lines) ==
  [i \in 1..Len(lines) |-> Join(lines[i], ",")]

\* The text lines of a file that holds the header and the given lists.
PosFileText(lines) ==
  <<Join(PosFileHeader, ",")>> \o [i \in 1..Len(lines) |-> Join(lines[i], ",")]

\* The step's effect on the output directory and the final placement file
\* (written: whether the file was opened for writing; lines: the lists
\* written after the header), and the exception that leaves it.
generate_pos(fixups, files, proc) ==
  LET files1 == AfterProc(files, proc, pre_fixup_pos_filename)
      e1 == run_command(generate_pos_args, proc)
      body ==
        IF e1 # NoError
          THEN [files |-> files1, written |-> FALSE, lines |-> <<>>, err |-> e1]
        ELSE IF pre_fixup_pos_filename \notin files1
          THEN [files |-> files1, written |-> FALSE, lines |-> <<>>,
                err |-> PyError("FileNotFoundError")]
          ELSE LET w == WriteRows(fixups, Tail(proc.content))
               IN [files |-> files1 \cup {PosFile}, written |-> TRUE,
                   lines |-> w.lines, err |-> w.err]
      fin == RemoveInFinally(body.files, pre_fixup_pos_filename, body.err)
  IN [files |-> fin.files, written |-> body.written, lines |-> body.lines,
      err |-> fin.err]

\* ------------------------------------------------------------------ state
VARIABLES
  pc,           \* "start", "steps", "finished", "raised", "exited"
  step,         \* index in Steps of the step the loop runs next
  force,        \* the --force flag
  dir_exists,   \* path.isdir(output)
  dir_files,    \* names of the files in the output directory
  pos_fixups,   \* ec.pos_fixups
  pos_lines,    \* the lists generate_pos joined and wrote, in order
  pos_file,     \* text lines of the final placement file
  err,          \* the exception in flight (NoError: none)
  echoed,       \* what click.echo has printed, in order
  ret,          \* generate_fab's return value: <<>> is None, <<n>> is n
  exit_code,    \* <<>> while the process runs, <<n>> once it has exited
  started,      \* history: names of the steps called, in order
  completed,    \* history: names of the steps that returned, in order
  invocations,  \* history: argument lists handed to subprocess.run
  proc_of,      \* history: what each step's external process did
  step_err      \* history: the exception each step raised

vars ==
  <<pc, step, force, dir_exists, dir_files, pos_fixups, pos_lines, pos_file,
    err, echoed, ret, exit_code, started, completed, invocations, proc_of,
    step_err>>

Init ==
  /\ pc = "start"
  /\ step = 1
  /\ force \in BOOLEAN
  /\ dir_exists \in BOOLEAN
  /\ dir_files \in (IF dir_exists THEN SUBSET {StaleFile} ELSE {{}})
  /\ pos_fixups = EmptyDict
  /\ pos_lines = <<>>
  /\ pos_file = <<>>
  /\ err = NoError
  /\ echoed = <<>>
  /\ ret = <<>>
  /\ exit_code = <<>>
  /\ started = <<>>
  /\ completed = <<>>
  /\ invocations = <<>>
  /\ proc_of = [n \in StepNames |-> NoProc]
  /\ step_err = [n \in StepNames |-> NoError]

\* ---------------------------------------------------------------- actions
SetupAlwaysWipe ==
  /\ pc = "start"
  /\ dir_exists' = TRUE
  /\ dir_files' = {}
  /\ echoed' = Append(echoed,
       "Using " \o kicad_path \o " to generate fabraction outputs for PCB "
         \o pcb \o " and schema " \o schema)
  /\ pos_fixups' = EmptyDict
  /\ pc' = "steps"
  /\ UNCHANGED <<err, step, force, pos_lines, pos_file, ret, exit_code,
                 started, completed, invocations, proc_of, step_err>>

SetupKeepsContents ==
  IF dir_exists /\ ~force
    THEN /\ pc = "start"
         /\ err' = ScriptError(Quote(output) \o " already exists.",
              "Use --fore to remove and re-create, or --output to specify a different path",
              OutputExistsErrorCode)
         /\ pc' = "raised"
         /\ UNCHANGED <<dir_exists, dir_files, echoed, pos_fixups, step, force,
                        pos_lines, pos_file, ret, exit_code, started,
                        completed, invocations, proc_of, step_err>>
    ELSE
         /\ pc = "start"
         /\ dir_exists' = TRUE
         /\ dir_files' = dir_files
         /\ echoed' = Append(echoed,
              "Using " \o kicad_path \o " to generate fabraction outputs for PCB "
                \o pcb \o " and schema " \o schema)
         /\ pos_fixups' = EmptyDict
         /\ pc' = "steps"
         /\ UNCHANGED <<err, step, force, pos_lines, pos_file, ret, exit_code,
                        started, completed, invocations, proc_of, step_err>>

\* generate_fab up to the step loop: the output directory check, rmtree,
\* makedirs, the first echo and the creation of the execution context.
Setup ==
  /\ pc = "start"
  /\ IF dir_exists /\ ~force
       THEN /\ err' = ScriptError(Quote(output) \o " already exists.",
                 "Use --fore to remove and re-create, or --output to specify a different path",
                 OutputExistsErrorCode)
            /\ pc' = "raised"
            /\ UNCHANGED <<dir_exists, dir_files, echoed, pos_fixups>>
       ELSE /\ dir_exists' = TRUE
            /\ dir_files' = {}
            /\ echoed' = Append(echoed,
                 "Using " \o kicad_path \o " to generate fabraction outputs for PCB "
                   \o pcb \o " and schema " \o schema)
            /\ pos_fixups' = EmptyDict
            /\ pc' = "steps"
            /\ UNCHANGED err
  /\ UNCHANGED <<step, force, pos_lines, pos_file, ret, exit_code, started,
                 completed, invocations, proc_of, step_err>>

AfterStepSwallow(i, e) ==
  IF i = Len(Steps) THEN [pc |-> "finished", step |-> i + 1]
  ELSE [pc |-> "steps", step |-> i + 1]

\* for step in steps: step(ec) -- where the loop stands once step i has left
\* with the exception e (NoError: it returned).
AfterStep(i, e) ==
  IF e # NoError THEN [pc |-> "raised", step |-> i]
  ELSE IF i = Len(Steps) THEN [pc |-> "finished", step |-> i + 1]
  ELSE [pc |-> "steps", step |-> i + 1]

\* The loop calls the step `name`, which runs one external process and
\* leaves with the exception e.
CallStep(name, args, proc, e) ==
  /\ pc = "steps"
  /\ step \in 1..Len(Steps)
  /\ Steps[step] = name
  /\ started' = Append(started, name)
  /\ invocations' = Append(invocations, args)
  /\ proc_of' = [proc_of EXCEPT ![name] = proc]
  /\ step_err' = [step_err EXCEPT ![name] = e]
  /\ completed' = IF e = NoError THEN Append(completed, name) ELSE completed
  /\ err' = IF e # NoError THEN e ELSE err
  /\ pc' = AfterStep(step, e).pc
  /\ step' = AfterStep(step, e).step
  /\ UNCHANGED <<force, dir_exists, echoed, ret, exit_code>>

\* A step that only runs one command writing `name`.
CommandStep(stepName, args, name) ==
  \E proc \in Procs({<<>>}, FALSE) :
    /\ CallStep(stepName, args, proc, run_command(args, proc))
    /\ dir_files' = AfterProc(dir_files, proc, name)
    /\ UNCHANGED <<pos_fixups, pos_lines, pos_file>>

GenerateGerbers ==
  CommandStep("generate_gerbers", generate_gerbers_args, GerberFile)

GenerateDrill ==
  CommandStep("generate_drill", generate_drill_args, DrillFile)

ArchivePcb ==
  CommandStep("archive_pcb", archive_pcb_args(dir_files), ZipFile)

GenerateBom ==
  CommandStep("generate_bom", generate_bom_args, BomFile)

LoadPosFixups ==
  \E proc \in Procs(FixupContents, TRUE) :
    LET r == load_pos_fixups(pos_fixups, dir_files, proc)
    IN /\ CallStep("load_pos_fixups", load_pos_fixups_args, proc, r.err)
       /\ pos_fixups' = r.fixups
       /\ dir_files' = r.files
       /\ UNCHANGED <<pos_lines, pos_file>>

GeneratePosWritesRecord ==
  \E proc \in Procs(PosContents, TRUE) :
    LET r == generate_pos(pos_fixups, dir_files, proc)
        hits(k) == {i \in 1..Len(r.lines) : proc.content[i + 1][1] = k}
        last(k) == CHOOSE i \in hits(k) : \A j \in hits(k) : j <= i
    IN /\ CallStep("generate_pos", generate_pos_args, proc, r.err)
       /\ dir_files' = r.files
       /\ pos_lines' = r.lines
       /\ pos_file' = IF r.written THEN PosFileText(r.lines) ELSE pos_file
       /\ pos_fixups' =
            [k \in DOMAIN pos_fixups |->
               IF hits(k) = {} THEN pos_fixups[k]
               ELSE [pos_fixups[k] EXCEPT
                       !["PosRotAdjust"] = r.lines[last(k)][6]]]

GeneratePos ==
  \E proc \in Procs(PosContents, TRUE) :
    LET r == generate_pos(pos_fixups, dir_files, proc)
    IN /\ CallStep("generate_pos", generate_pos_args, proc, r.err)
       /\ dir_files' = r.files
       /\ pos_lines' = r.lines
       /\ pos_file' = IF r.written THEN PosFileText(r.lines) ELSE pos_file
       /\ UNCHANGED pos_fixups

\* What the process exits with once the click command has returned rv: the
\* command is called as generate_fab() and its return value is dropped.
CommandExitCode(rv) == 0

\* What the interpreter exits with on an exception nothing catches.
UncaughtExitCode == 1

\* The loop ended: echo 'Done.' and fall off the end of generate_fab.
ReturnDone ==
  /\ pc = "finished"
  /\ echoed' = Append(echoed, "Done.")
  /\ ret' = <<>>
  /\ exit_code' = <<CommandExitCode(<<>>)>>
  /\ pc' = "exited"
  /\ UNCHANGED <<step, force, dir_exists, dir_files, pos_fixups, pos_lines,
                 pos_file, err, started, completed, invocations, proc_of,
                 step_err>>

\* except ScriptError as se: echo title and details, return se.error_code.
ReturnScriptError ==
  /\ pc = "raised"
  /\ err.type = "ScriptError"
  /\ echoed' = echoed \o <<Style(err.title), err.details>>
  /\ ret' = <<err.error_code>>
  /\ exit_code' = <<CommandExitCode(<<err.error_code>>)>>
  /\ pc' = "exited"
  /\ UNCHANGED <<step, force, dir_exists, dir_files, pos_fixups, pos_lines,
                 pos_file, err, started, completed, invocations, proc_of,
                 step_err>>

\* Any other exception passes the except clause and ends the process.
Uncaught ==
  /\ pc = "raised"
  /\ err.type # "ScriptError"
  /\ exit_code' = <<UncaughtExitCode>>
  /\ pc' = "exited"
  /\ UNCHANGED <<step, force, dir_exists, dir_files, pos_fixups, pos_lines,
                 pos_file, err, echoed, ret, started, completed, invocations,
                 proc_of, step_err>>

Next ==
  \/ Setup
  \/ GenerateGerbers
  \/ GenerateDrill
  \/ ArchivePcb
  \/ GenerateBom
  \/ LoadPosFixups
  \/ GeneratePos
  \/ ReturnDone
  \/ ReturnScriptError
  \/ Uncaught

Spec == Init /\ [][Next]_vars

TypeOK ==
  /\ pc \in {"start", "steps", "finished", "raised", "exited"}
  /\ step \in 1..(Len(Steps) + 1)
  /\ DOMAIN pos_fixups \subseteq Refs
  /\ dir_files \subseteq
       {GerberFile, DrillFile, ZipFile, BomFile, PosFile, StaleFile,
        pos_fixups_filename, pre_fixup_pos_filename}

\* ----------------------------------------------------------- properties
Range(f) == {f[i] : i \in DOMAIN f}

LastTwo(xs) == SubSeq(xs, Len(xs) - 1, Len(xs))

\* The step order the pipeline is documented to follow.
FixedOrder ==
  <<"generate_gerbers", "generate_drill", "archive_pcb", "generate_bom",
    "load_pos_fixups", "generate_pos">>

\* The data rows of the CSV file a step's process wrote.
DataRows(name) == Tail(proc_of[name].content)

\* generate_pos got as far as reading the raw placement export.
PosExportRead ==
  /\ "generate_pos" \in Range(started)
  /\ proc_of["generate_pos"].spawned
  /\ proc_of["generate_pos"].returncode = 0
  /\ proc_of["generate_pos"].wrote

\* C1: when a step fails the pipeline stops: the failing step is the last
\* step ever started, the loop is left, and the error of the run is that
\* step's error (for a ScriptError, the title and details printed at exit).
C1_StopsAtFirstFailure ==
  \A i \in 1..Len(started) :
    step_err[started[i]] # NoError =>
      /\ i = Len(started)
      /\ pc \in {"raised", "exited"}
      /\ err = step_err[started[i]]
      /\ (pc = "exited" /\ err.type = "ScriptError") =>
           LastTwo(echoed) = <<Style(err.title), err.details>>

C1_Witness ==
  /\ pc = "exited"
  /\ started = <<"generate_gerbers", "generate_drill">>
  /\ step_err["generate_drill"].type = "ScriptError"
  /\ err = step_err["generate_drill"]

\* C2: once load_pos_fixups (generate_pos) has returned or raised, its
\* temporary file pos-fixups.csv (pre-fixup-pos.pos) is not in the output
\* directory.
C2_TempFilesAbsent ==
  /\ "load_pos_fixups" \in Range(started) => pos_fixups_filename \notin dir_files
  /\ "generate_pos" \in Range(started) => pre_fixup_pos_filename \notin dir_files

C2_Witness ==
  /\ "generate_pos" \in Range(started)
  /\ proc_of["load_pos_fixups"].wrote
  /\ step_err["load_pos_fixups"] = NoError
  /\ proc_of["generate_pos"].wrote
  /\ proc_of["generate_pos"].returncode # 0
  /\ pre_fixup_pos_filename \notin dir_files

\* The ScriptError run_command is documented to raise for a step's command.
CommandError(name, args) ==
  ScriptError("Error executing command " \o Join(args, " "),
              proc_of[name].stdout, 2)

\* C3: when the external tool of load_pos_fixups or generate_pos exits with
\* a non-zero status, the temporary file is cleaned up and the command's
\* ScriptError is what leaves the step, whether or not the tool created the
\* temporary file.
C3_CommandErrorPropagates ==
  /\ ("load_pos_fixups" \in Range(started)
        /\ proc_of["load_pos_fixups"].spawned
        /\ proc_of["load_pos_fixups"].returncode # 0) =>
       /\ step_err["load_pos_fixups"] =
            CommandError("load_pos_fixups", load_pos_fixups_args)
       /\ pos_fixups_filename \notin dir_files
  /\ ("generate_pos" \in Range(started)
        /\ proc_of["generate_pos"].spawned
        /\ proc_of["generate_pos"].returncode # 0) =>
       /\ step_err["generate_pos"] =
            CommandError("generate_pos", generate_pos_args)
       /\ pre_fixup_pos_filename \notin dir_files

\* C4: a row of the raw placement export whose reference has no record in
\* the fixups map does not make the lookup raise: the row is written with
\* the rotation it was exported with.
C4_MissingKeyIsNoFixup ==
  PosExportRead =>
    \A i \in 1..Len(DataRows("generate_pos")) :
      DataRows("generate_pos")[i][1] \notin DOMAIN pos_fixups =>
        /\ step_err["generate_pos"].type # "KeyError"
        /\ i <= Len(pos_lines)
        /\ pos_lines[i][6] = DataRows("generate_pos")[i][6]

C7_FixedSequentialOrder ==
  /\ Len(started) <= Len(FixedOrder)
  /\ started = SubSeq(FixedOrder, 1, Len(started))
  /\ Len(completed) <= Len(started)
  /\ completed = SubSeq(started, 1, Len(completed))
  /\ Len(started) - Len(completed) <= 1
  /\ \A i \in 1..Len(started) :
       \A j \in 1..(i - 1) : step_err[FixedOrder[j]] = NoError

C7_Witness ==
  /\ pc = "finished"
  /\ started = FixedOrder
  /\ completed = FixedOrder

\* C8: when generate_pos has been started, load_pos_fixups has returned
\* before it without an exception and the fixups map has exactly one record
\* for every reference in a data row of the rotation-override export.
C8_FixupsPopulatedBeforeReconcile ==
  "generate_pos" \in Range(started) =>
    /\ \E i \in 1..Len(completed) :
         /\ completed[i] = "load_pos_fixups"
         /\ \E j \in 1..Len(started) : started[j] = "generate_pos" /\ i < j
    /\ step_err["load_pos_fixups"] = NoError
    /\ DOMAIN pos_fixups =
         {DataRows("load_pos_fixups")[k][1] :
            k \in 1..Len(DataRows("load_pos_fixups"))}
    /\ \A r \in DOMAIN pos_fixups : pos_fixups[r]["Reference"] = r

C8_Witness ==
  /\ "generate_pos" \in Range(started)
  /\ DOMAIN pos_fixups = {"R1", "C2"}

\* C9: run_command invokes its process exactly once; a non-zero exit status
\* gives ScriptError with error_code 2, the title "Error executing command "
\* followed by the space-joined arguments and the captured output as
\* details; exit status 0 raises nothing.  (Stated on the four steps that
\* consist of one run_command call.)
C9_RunCommandContract ==
  /\ Len(invocations) = Len(started)
  /\ \A i \in 1..Len(started) :
       LET name == started[i]
           p == proc_of[name]
       IN (name \in {"generate_gerbers", "generate_drill", "archive_pcb",
                     "generate_bom"} /\ p.spawned) =>
            /\ p.returncode # 0 =>
                 /\ step_err[name].type = "ScriptError"
                 /\ step_err[name].error_code = 2
                 /\ step_err[name].details = p.stdout
                 /\ step_err[name].title =
                      "Error executing command " \o Join(invocations[i], " ")
            /\ p.returncode = 0 => step_err[name] = NoError
  /\ ("generate_drill" \in Range(started)
        /\ proc_of["generate_drill"].spawned
        /\ proc_of["generate_drill"].returncode # 0) =>
       step_err["generate_drill"].title =
         "Error executing command kicad-cli pcb export drill --map-format gerberx2 -o fab/ proj/proj.kicad_pcb"

C9_Witness ==
  /\ proc_of["generate_drill"].spawned
  /\ proc_of["generate_drill"].returncode = 3
  /\ proc_of["generate_drill"].stdout = "boom"
  /\ step_err["generate_drill"].error_code = 2
  /\ step_err["generate_drill"].details = "boom"
  /\ Len(invocations) = 2

\* C10: the process exits with 0 exactly when all steps succeeded, with 1
\* when the run ended on the existing output directory and with 2 when it
\* ended on a failed external command, after printing title and details.
C10_ExitCodes ==
  pc = "exited" =>
    /\ exit_code = <<0>> <=> completed = FixedOrder
    /\ (started = <<>> /\ err.type = "ScriptError") => exit_code = <<1>>
    /\ (\E n \in Range(started) :
          proc_of[n].spawned /\ proc_of[n].returncode # 0) =>
         /\ exit_code = <<2>>
         /\ LastTwo(echoed) = <<Style(err.title), err.details>>

\* The rotation a data row of the raw export is documented to end up with.
ExpectedRotation(row) ==
  IF row[1] \in DOMAIN pos_fixups /\ pos_fixups[row[1]]["PosRotAdjust"] # ""
    THEN pos_fixups[row[1]]["PosRotAdjust"]
    ELSE row[6]

\* The text line a data row of the raw export is documented to become.
ExpectedLine(row) ==
  "\"" \o row[1] \o "\",\"" \o row[2] \o "\",\"" \o row[3] \o "\"," \o row[4]
    \o "," \o row[5] \o "," \o ExpectedRotation(row) \o "," \o row[7]

\* C11: after a successful generate_pos the final placement file is the
\* fixed header line followed by one comma-joined line per data row of the
\* raw export, in the raw export's order: the raw header is discarded and no
\* row is added, dropped or duplicated.
C11_HeaderThenOneLinePerRow ==
  "generate_pos" \in Range(completed) =>
    /\ PosFile \in dir_files
    /\ Len(pos_file) = Len(DataRows("generate_pos")) + 1
    /\ pos_file[1] = "Designator,Val,Package,Mid X,Mid Y,Rotation,Layer"
    /\ \A i \in 1..Len(DataRows("generate_pos")) :
         pos_file[i + 1] = ExpectedLine(DataRows("generate_pos")[i])

C11_Witness ==
  /\ "generate_pos" \in Range(completed)
  /\ Len(DataRows("generate_pos")) = 2
  /\ DataRows("generate_pos")[1][1] = "C2"
  /\ DataRows("generate_pos")[2][1] = "R1"
  /\ Len(pos_file) = 3

\* C12: in every data row written to the final placement file the
\* reference, value and package are the raw values in double quotes, and
\* mid x, mid y, rotation and layer are unquoted, mid x, mid y and layer
\* being the raw values; with the fixup R1 -> 90 the raw row
\* R1,10k,0805,12.5,8.2,0,top becomes "R1","10k","0805",12.5,8.2,90,top.
C12_QuotedAndUnquotedFields ==
  PosExportRead =>
    \A i \in 1..Len(pos_lines) :
      LET row == DataRows("generate_pos")[i]
      IN /\ pos_lines[i][1] = "\"" \o row[1] \o "\""
         /\ pos_lines[i][2] = "\"" \o row[2] \o "\""
         /\ pos_lines[i][3] = "\"" \o row[3] \o "\""
         /\ pos_lines[i][4] = row[4]
         /\ pos_lines[i][5] = row[5]
         /\ pos_lines[i][6] \in Rotations \cup Adjusts
         /\ pos_lines[i][7] = row[7]
         /\ pos_file[i + 1] = Join(pos_lines[i], ",")
         /\ (row = <<"R1", "10k", "0805", "12.5", "8.2", "0", "top">>
               /\ pos_fixups["R1"]["PosRotAdjust"] = "90") =>
              pos_file[i + 1] = "\"R1\",\"10k\",\"0805\",12.5,8.2,90,top"

C12_Witness ==
  /\ PosExportRead
  /\ \E i \in 1..Len(pos_lines) :
       /\ DataRows("generate_pos")[i] =
            <<"R1", "10k", "0805", "12.5", "8.2", "0", "top">>
       /\ pos_fixups["R1"]["PosRotAdjust"] = "90"
       /\ pos_file[i + 1] = "\"R1\",\"10k\",\"0805\",12.5,8.2,90,top"

\* C13: when the output directory exists and --force is not given, the run
\* fails with a ScriptError of error_code 1 before any step: no command is
\* invoked and the directory and its files stay as they were.  With --force
\* the directory is wiped and re-created and the pipeline runs.
C13_OutputDirectoryConflict ==
  /\ [](((pc \in {"raised", "exited"}) /\ started = <<>>) =>
          /\ err = ScriptError("\"fab\" already exists.",
               "Use --fore to remove and re-create, or --output to specify a different path",
               1)
          /\ ~force
          /\ dir_exists
          /\ invocations = <<>>
          /\ pc = "exited" => ret = <<1>>)
  /\ [][/\ (pc = "start" /\ dir_exists /\ ~force) =>
             /\ pc' = "raised"
             /\ err'.type = "ScriptError"
             /\ err'.error_code = 1
             /\ started' = <<>>
             /\ invocations' = <<>>
             /\ UNCHANGED <<dir_exists, dir_files>>
        /\ ((pc \in {"raised", "exited"}) /\ started = <<>>) =>
             UNCHANGED <<dir_exists, dir_files, started, invocations>>
        /\ (pc = "start" /\ dir_exists /\ force) =>
             /\ pc' = "steps"
             /\ step' = 1
             /\ dir_exists'
             /\ dir_files' = {}]_vars

C13_Witness ==
  /\ pc = "exited"
  /\ ~force
  /\ dir_exists
  /\ StaleFile \in dir_files
  /\ err.type = "ScriptError"
  /\ err.error_code = 1
  /\ started = <<>>
  /\ invocations = <<>>

\* C14: after a successful load_pos_fixups every data row of the
\* rotation-override export has its reference as a key of the fixups map,
\* and the record under a reference is the one of the last row with that
\* reference.
C14_LastWriteWins ==
  "load_pos_fixups" \in Range(completed) =>
    LET rows == DataRows("load_pos_fixups")
    IN \A k \in 1..Len(rows) :
         /\ rows[k][1] \in DOMAIN pos_fixups
         /\ (\A j \in (k + 1)..Len(rows) : rows[j][1] # rows[k][1]) =>
              /\ pos_fixups[rows[k][1]]["Reference"] = rows[k][1]
              /\ pos_fixups[rows[k][1]]["PosRotAdjust"] = rows[k][2]

C14_Witness ==
  /\ "load_pos_fixups" \in Range(completed)
  /\ DataRows("load_pos_fixups") = <<(<<"R1", "">>), (<<"R1", "90">>)>>
  /\ pos_fixups["R1"]["PosRotAdjust"] = "90"

\* C15: only load_pos_fixups writes the fixups map: a step that changes the
\* map is a call of load_pos_fixups; the four command steps and
\* generate_pos leave the map and every record in it as they were, whether
\* they return or raise.
C15_OnlyLoaderWritesFixups ==
  [][pos_fixups' # pos_fixups =>
       /\ Len(started') = Len(started) + 1
       /\ started'[Len(started')] = "load_pos_fixups"]_vars

C15_Witness ==
  /\ PosExportRead
  /\ DataRows("load_pos_fixups") = <<(<<"R1", "90">>), (<<"C2", "">>)>>
  /\ Len(pos_lines) = 2
  /\ \E i \in 1..2 :
       /\ DataRows("generate_pos")[i][1] = "R1"
       /\ DataRows("generate_pos")[i][6] = "0"
       /\ pos_lines[i][6] = "90"
  /\ pos_fixups["R1"]["PosRotAdjust"] = "90"
  /\ pos_fixups["C2"]["PosRotAdjust"] = ""

\* The file a step's external process writes.
OutputOf(name) ==
  CASE name = "generate_gerbers" -> GerberFile
    [] name = "generate_drill" -> DrillFile
    [] name = "archive_pcb" -> ZipFile
    [] name = "generate_bom" -> BomFile
    [] name = "load_pos_fixups" -> pos_fixups_filename
    [] OTHER -> pre_fixup_pos_filename

\* C16: when the first step starts the output directory exists, was created
\* by this run, is empty, and the fixups map is empty; every file found in
\* the directory later, and every file the archive step's globs hand to
\* zip, was written during this run.
C16_FreshOutputDirectory ==
  /\ []((pc = "steps" /\ started = <<>>) =>
          /\ dir_exists
          /\ dir_files = {}
          /\ DOMAIN pos_fixups = {})
  /\ [](started # <<>> =>
          /\ dir_exists
          /\ StaleFile \notin dir_files
          /\ \A f \in dir_files :
               \/ \E n \in Range(started) :
                    proc_of[n].spawned /\ proc_of[n].wrote /\ f = OutputOf(n)
               \/ f = PosFile /\ PosExportRead
          /\ \A i \in 1..Len(invocations) :
               InOutput(StaleFile) \notin Range(invocations[i]))
  /\ [][(pc = "start" /\ pc' = "steps") =>
          /\ ~dir_exists \/ force
          /\ dir_exists'
          /\ dir_files' = {}]_vars

C16_Witness ==
  /\ force
  /\ Len(started) = 3
  /\ started[3] = "archive_pcb"
  /\ invocations[3] =
       <<"zip", "-o", "fab/proj-gerbers.zip", "fab/proj-F_Cu.gtl",
         "fab/proj.drl">>
  /\ StaleFile \notin dir_files

====
